---- MODULE Spec2Model ----
(***************************************************************************)
(* A model of @fab33/fab-errors: the FabError value (construction from an  *)
(* ErrorSpec, context merge and freeze, message formatting) and the two    *)
(* chain inspectors hasErrorInChain and checkErrorChain, which walk        *)
(* Error.cause links.                                                      *)
(*                                                                         *)
(* JavaScript values are records [t, s, n]: t is the type tag, s the text  *)
(* of a string, n a number, a boolean (0/1) or a heap reference.  Plain    *)
(* objects live in objs, Error instances in errs; both heaps only grow.    *)
(***************************************************************************)
EXTENDS Integers, Sequences, FiniteSets, TLC

VARIABLES
    objs,       \* heap of plain objects: blueprints, default contexts, contexts
    errs,       \* heap of Error instances
    pc,         \* position of the one synchronous call in progress
    call,       \* the arguments of that call
    cur,        \* currentError / currentErrorInChain
    lvl,        \* levelIndex of checkErrorChain
    visited,    \* nodes whose fields the call has read, in order of reading
    matched,    \* codeMatch, typeMatch, messageMatch of the last examined node
    ret         \* outcome of the last call: a returned value or a raised error

vars == <<objs, errs, pc, call, cur, lvl, visited, matched, ret>>

----------------------------------------------------------------------------
(* Bounds of the model *)

MaxErrs == 2

MaxVisited == 4

----------------------------------------------------------------------------
(* JavaScript values *)

Undef == [t |-> "undef", s |-> "", n |-> 0]

Null == [t |-> "null", s |-> "", n |-> 0]

Str(x) == [t |-> "str", s |-> x, n |-> 0]

Num(k) == [t |-> "num", s |-> "", n |-> k]

Bool(b) == [t |-> "bool", s |-> "", n |-> IF b THEN 1 ELSE 0]

ObjRef(i) == [t |-> "obj", s |-> "", n |-> i]

ErrRef(i) == [t |-> "err", s |-> "", n |-> i]

\* a function value and a symbol value
Fn == [t |-> "fn", s |-> "", n |-> 0]

Sym == [t |-> "sym", s |-> "", n |-> 0]

\* ToBoolean: the test of `while (currentError)` and `if (!errorForThisIteration)`
Truthy(v) ==
    CASE v.t \in {"undef", "null"} -> FALSE
      [] v.t = "str" -> v.s # ""
      [] v.t = "num" -> v.n # 0
      [] v.t = "bool" -> v.n = 1
      [] OTHER -> TRUE

\* String(v) and the conversion of `${v}` for the primitives
StringOf(v) ==
    CASE v.t = "str" -> v.s
      [] v.t = "num" -> ToString(v.n)
      [] v.t = "bool" -> (IF v.n = 1 THEN "true" ELSE "false")
      [] v.t = "undef" -> "undefined"
      [] v.t = "null" -> "null"
      [] OTHER -> "[object Object]"

\* a || b on values
OrElse(a, b) == IF Truthy(a) THEN a ELSE b

----------------------------------------------------------------------------
(* Strings *)

UpperChars == "ABCDEFGHIJKLMNOPQRSTUVWXYZ"

LowerChars == "abcdefghijklmnopqrstuvwxyz"

Digits == "0123456789"

CharAt(s, i) == SubSeq(s, i, i)

IsIn(c, chars) == \E i \in 1..Len(chars) : CharAt(chars, i) = c

LowerChar(c) ==
    IF IsIn(c, UpperChars)
    THEN CharAt(LowerChars, CHOOSE i \in 1..Len(UpperChars) : CharAt(UpperChars, i) = c)
    ELSE c

RECURSIVE ToLowerCase(_)
\* String.prototype.toLowerCase
ToLowerCase(s) ==
    IF Len(s) = 0 THEN ""
    ELSE LowerChar(CharAt(s, 1)) \o ToLowerCase(SubSeq(s, 2, Len(s)))

\* String.prototype.includes
Includes(hay, needle) ==
    \E i \in 0..(Len(hay) - Len(needle)) : SubSeq(hay, i + 1, i + Len(needle)) = needle

\* \w of the placeholder pattern
IsWordChar(c) == IsIn(c, UpperChars) \/ IsIn(c, LowerChars) \/ IsIn(c, Digits) \/ c = "_"

----------------------------------------------------------------------------
(* Plain objects *)

\* an object literal with the given own enumerable properties
NewObj(props) == [props |-> props, frozen |-> FALSE, ts |-> "default", tsv |-> ""]

\* an object whose toString is its own: one that returns text, or one that throws
WithToString(text) == [props |-> [k \in {} |-> Undef], frozen |-> FALSE, ts |-> "custom", tsv |-> text]

WithThrowingToString == [props |-> [k \in {} |-> Undef], frozen |-> FALSE, ts |-> "throws", tsv |-> ""]

NoProps == [k \in {} |-> Undef]

\* o[k]: the own property, undefined when there is none
Get(props, k) == IF k \in DOMAIN props THEN props[k] ELSE Undef

\* the value of property k of the heap object behind reference r
Field(heap, r, k) == IF r.t = "obj" THEN Get(heap[r.n].props, k) ELSE Undef

\* target[k] = v on a props function
Put(props, k, v) == [x \in (DOMAIN props) \cup {k} |-> IF x = k THEN v ELSE props[x]]

RECURSIVE CopyProps(_, _, _)
\* the spread ...source into target: each own key of source is set on target in turn
CopyProps(target, source, keys) ==
    IF keys = {} THEN target
    ELSE LET k == CHOOSE x \in keys : TRUE
         IN  CopyProps(Put(target, k, source[k]), source, keys \ {k})

\* the own enumerable properties a spread reads from a value (none for undefined)
SpreadSource(heap, r) == IF r.t = "obj" THEN heap[r.n].props ELSE NoProps

\* { ...b, ...a }: the spreads in the other order
Spread2DefaultsWin(a, b) ==
    LET first == CopyProps(NoProps, b, DOMAIN b)
    IN  CopyProps(first, a, DOMAIN a)

\* { ...a, ...b }
Spread2(a, b) ==
    LET first == CopyProps(NoProps, a, DOMAIN a)
    IN  CopyProps(first, b, DOMAIN b)

\* the context stored without Object.freeze
FreezeNot(o) == o

\* Object.freeze
Freeze(o) == [o EXCEPT !.frozen = TRUE]

\* a freeze that also reaches the objects stored as property values
FreezeReachDeep(heap, r) ==
    {r} \cup { heap[r].props[k].n : k \in { x \in DOMAIN heap[r].props : heap[r].props[x].t = "obj" } }

\* the objects one call of Object.freeze on object r marks: r itself and no other
FreezeReach(heap, r) == {r}

\* the heap after Object.freeze(heap[r])
FreezeIn(heap, r) ==
    [i \in DOMAIN heap |-> IF i \in FreezeReach(heap, r) THEN Freeze(heap[i]) ELSE heap[i]]

----------------------------------------------------------------------------
(* formatMessage *)

RECURSIVE WordEnd(_, _)
\* the first position at or after i that does not hold a word character
WordEnd(s, i) ==
    IF i <= Len(s) /\ IsWordChar(CharAt(s, i)) THEN WordEnd(s, i + 1) ELSE i

\* the replacer calling toString on every object, the default one included
ReplacerObjectToString(match, key, ctx, heap) ==
    LET value == Get(ctx, key)
    IN  IF value.t \in {"str", "num", "bool"} THEN StringOf(value)
        ELSE IF value.t = "obj"
             THEN IF heap[value.n].ts = "throws" THEN match
                  ELSE IF heap[value.n].ts = "custom" THEN heap[value.n].tsv
                  ELSE "[object Object]"
             ELSE match

\* the replacer stringifying whatever the lookup gives, a miss included
ReplacerStringifyAll(match, key, ctx, heap) ==
    LET value == Get(ctx, key)
    IN  IF value.t = "obj" /\ heap[value.n].ts = "custom" THEN heap[value.n].tsv
        ELSE StringOf(value)

\* the replacer callback: what one placeholder `match` with name `key` becomes
Replacer(match, key, ctx, heap) ==
    LET value == Get(ctx, key)
    IN  IF value.t \notin {"undef", "null"}
        THEN IF value.t \in {"str", "num", "bool"}
             THEN StringOf(value)
             ELSE IF value.t = "obj"
                  THEN IF heap[value.n].ts # "default"
                       THEN IF heap[value.n].ts = "throws" THEN match
                            ELSE heap[value.n].tsv
                       ELSE match
                  ELSE match
        ELSE match

RECURSIVE ReplaceFrom(_, _, _, _)
\* template.replace(/{(\w+)}/g, replacer), scanning from position i
ReplaceFrom(s, i, ctx, heap) ==
    IF i > Len(s) THEN ""
    ELSE IF CharAt(s, i) = "{"
         THEN LET j == WordEnd(s, i + 1)
              IN  IF j > i + 1 /\ j <= Len(s) /\ CharAt(s, j) = "}"
                  THEN Replacer(SubSeq(s, i, j), SubSeq(s, i + 1, j - 1), ctx, heap)
                           \o ReplaceFrom(s, j + 1, ctx, heap)
                  ELSE "{" \o ReplaceFrom(s, i + 1, ctx, heap)
         ELSE CharAt(s, i) \o ReplaceFrom(s, i + 1, ctx, heap)

\* formatMessage coercing the template to a string instead of testing its type
formatMessageNoGuard(template, ctx, heap) == ReplaceFrom(StringOf(template), 1, ctx, heap)

\* formatMessage replacing until a second pass over the result: inserted text is scanned again
formatMessageRescan(template, ctx, heap) ==
    IF template.t # "str" THEN ""
    ELSE ReplaceFrom(ReplaceFrom(template.s, 1, ctx, heap), 1, ctx, heap)

formatMessage(template, ctx, heap) ==
    IF template.t # "str" THEN "" ELSE ReplaceFrom(template.s, 1, ctx, heap)

----------------------------------------------------------------------------
(* Error classes and Error instances *)

\* the superclass of each error class of the tests ("" above Error)
SuperClass(cls) == IF cls = "Error" THEN "" ELSE "Error"

RECURSIVE InstanceOf(_, _)
\* `value instanceof type` for an instance whose constructor is cls
InstanceOf(cls, type) ==
    IF cls = "" THEN FALSE
    ELSE IF cls = type THEN TRUE
    ELSE InstanceOf(SuperClass(cls), type)

\* the test `if (cause)` in place of `cause instanceof Error`
IsErrorValueTruthy(v) == Truthy(v)

\* cause instanceof Error
IsErrorValue(v) == v.t = "err"

\* an Error instance that is not a FabError, as application code builds it
PlainError(cls, message, code, cause, stack) ==
    [cls |-> cls, name |-> cls, code |-> code, message |-> message,
     cause |-> cause, context |-> Undef, spec |-> Undef, docs |-> Undef, stack |-> stack]

\* the blueprints, default contexts and caller contexts of the application; then
\* (18) the library's `dependencies` object, (19, 20) two loggers of the
\* application, each counting the calls of its methods, and (21..23) arguments of
\* setFabErrorsDependencies
Fixtures ==
    << NewObj([a |-> Num(1), b |-> Num(2)]),
       NewObj([code |-> Str("L1"), messageTemplate |-> Str("Top {r} {b}"),
               defaultContext |-> ObjRef(1), docs |-> Str("doc1")]),
       NewObj([code |-> Str("L2"), messageTemplate |-> Str("Mid {i} {q}")]),
       NewObj([b |-> Num(3), r |-> Str("Bad IO")]),
       NewObj([i |-> Str("disk"), a |-> Undef]),
       NewObj([b |-> Num(3)]),
       NewObj([n |-> Num(1)]),
       NewObj([i |-> ObjRef(7), r |-> Str("deep")]),
       WithToString("v1.2"),
       WithThrowingToString,
       NewObj([x |-> ObjRef(9), y |-> ObjRef(10), z |-> ObjRef(7), f |-> Fn, s |-> Sym]),
       NewObj([a |-> Null, b |-> Bool(TRUE), r |-> Str("{b}")]),
       NewObj([k \in {} |-> Undef]),
       NewObj([a |-> Str(""), b |-> Num(0), r |-> Bool(FALSE)]),
       NewObj([code |-> Str("L3"), messageTemplate |-> Num(5)]),
       NewObj([code |-> Str("L4"), messageTemplate |-> Str("{x}-{y}-{z} {f}")]),
       NewObj([code |-> Str("L5")]),
       NewObj([logger |-> Undef]),
       NewObj([calls |-> Num(0)]),
       NewObj([calls |-> Num(0)]),
       NewObj([logger |-> ObjRef(19)]),
       NewObj([logger |-> ObjRef(20)]),
       NewObj([logger |-> Undef]) >>

\* the heap object behind `dependencies`
Dependencies == 18

\* the LoggerLike objects of the application
Loggers == {19, 20}

\* a method of logger l is called once
Invoke(heap, l) ==
    [heap EXCEPT ![l].props = Put(heap[l].props, "calls", Num(Get(heap[l].props, "calls").n + 1))]

\* (blueprint, caller context) pairs FabErrors are constructed from
FabInputs == { <<2, 4>>, <<3, 5>>, <<2, 5>>, <<3, 4>>, <<2, 6>> }

\* the pairs used where only the chain matters
ChainFabInputs == { <<2, 4>> }

\* Error instances that are not FabErrors: a standard TypeError, and a node
\* whose code is not a string and whose message is not a string
PlainInputs ==
    { [cls |-> "TypeError", message |-> Str("A Type Problem"), code |-> Undef,
       stack |-> Str("TypeError stack trace")],
      [cls |-> "CustomError", message |-> Undef, code |-> Num(7),
       stack |-> Str("CustomError stack trace")] }

\* values that are not Error instances
NonErrorValues == { Str("why") }

\* criteria.message: absent, one value that is not an array, or an array
NoMsg == [def |-> FALSE, arr |-> FALSE, val |-> Undef, items |-> <<>>]

MsgOne(v) == [def |-> TRUE, arr |-> FALSE, val |-> v, items |-> <<>>]

MsgArr(items) == [def |-> TRUE, arr |-> TRUE, val |-> Undef, items |-> items]

\* an ErrorCriteria / ExpectedChainLevel object; type is a class name, "" when absent
Crit(code, type, message) == [code |-> code, type |-> type, message |-> message]

NoCriteria == Crit(Undef, "", NoMsg)

NoCall ==
    [fn |-> "none", start |-> Undef,
     criteria |-> NoCriteria,
     isArray |-> TRUE, levels |-> <<>>,
     spec |-> Undef, context |-> Undef, cause |-> Undef, key |-> "", value |-> Undef]

NoMatch == [code |-> FALSE, type |-> FALSE, message |-> FALSE]

NoRet ==
    [kind |-> "none", val |-> Undef, cls |-> "", code |-> Undef, msg |-> "", site |-> 0,
     json |-> Undef]

Init ==
    /\ objs = Fixtures
    /\ errs = <<>>
    /\ pc = "idle"
    /\ call = NoCall
    /\ cur = Undef
    /\ lvl = 0
    /\ visited = <<>>
    /\ matched = NoMatch
    /\ ret = NoRet

callVars == <<pc, call, cur, lvl, visited, matched, ret>>

\* `return v`
Return(v) ==
    [kind |-> "return", val |-> v, cls |-> "", code |-> Undef, msg |-> "", site |-> 0,
     json |-> Undef]

\* the constructor storing a copy of the blueprint, `this.spec = { ...spec }`
FabErrorConstructorCopy(spec, context, cause, stack) ==
    LET fullContext == Spread2(SpreadSource(objs, Field(objs, spec, "defaultContext")),
                               SpreadSource(objs, context))
        formattedMessage == formatMessage(Field(objs, spec, "messageTemplate"), fullContext, objs)
        ctxRef == ObjRef(Len(objs) + 1)
        specCopy == ObjRef(Len(objs) + 2)
        this == [cls |-> "FabError", name |-> "FabError",
                 code |-> Field(objs, spec, "code"),
                 message |-> Str(formattedMessage),
                 cause |-> IF IsErrorValue(cause) THEN cause ELSE Undef,
                 context |-> ctxRef, spec |-> specCopy,
                 docs |-> Field(objs, spec, "docs"), stack |-> stack]
    IN  /\ objs' = Append(FreezeIn(Append(objs, NewObj(fullContext)), ctxRef.n),
                          NewObj(SpreadSource(objs, spec)))
        /\ errs' = Append(errs, this)

\* the constructor merging the defaults into the caller's context object and
\* freezing that object, `Object.freeze(Object.assign(context, fullContext))`
FabErrorConstructorInPlace(spec, context, cause, stack) ==
    LET fullContext == Spread2(SpreadSource(objs, Field(objs, spec, "defaultContext")),
                               SpreadSource(objs, context))
        formattedMessage == formatMessage(Field(objs, spec, "messageTemplate"), fullContext, objs)
        this == [cls |-> "FabError", name |-> "FabError",
                 code |-> Field(objs, spec, "code"),
                 message |-> Str(formattedMessage),
                 cause |-> IF IsErrorValue(cause) THEN cause ELSE Undef,
                 context |-> context, spec |-> spec,
                 docs |-> Field(objs, spec, "docs"), stack |-> stack]
    IN  /\ objs' = FreezeIn([objs EXCEPT ![context.n].props = fullContext], context.n)
        /\ errs' = Append(errs, this)

\* the body of the FabError constructor: the new heaps; stack is the trace the
\* engine captures in super(formattedMessage)
FabErrorConstructor(spec, context, cause, stack) ==
    LET fullContext == Spread2(SpreadSource(objs, Field(objs, spec, "defaultContext")),
                               SpreadSource(objs, context))
        formattedMessage == formatMessage(Field(objs, spec, "messageTemplate"), fullContext, objs)
        ctxRef == ObjRef(Len(objs) + 1)
        this == [cls |-> "FabError", name |-> "FabError",
                 code |-> Field(objs, spec, "code"),
                 message |-> Str(formattedMessage),
                 cause |-> IF IsErrorValue(cause) THEN cause ELSE Undef,
                 context |-> ctxRef, spec |-> spec,
                 docs |-> Field(objs, spec, "docs"), stack |-> stack]
    IN  /\ objs' = FreezeIn(Append(objs, NewObj(fullContext)), ctxRef.n)
        /\ errs' = Append(errs, this)

\* the causes a constructor call may be given
CauseArgs == {Undef} \cup {ErrRef(i) : i \in DOMAIN errs} \cup NonErrorValues

\* the trace captured when every FabError is constructed at one place of the application
OneStack == { Str("at app") }

\* new FabError(spec, context, cause) is called where the engine captures one of
\* `stacks`, and returns the new instance
NewFabErrorWith(inputs, causes, stacks) ==
    /\ pc = "idle"
    /\ Len(errs) < MaxErrs
    /\ \E inp \in inputs, cause \in causes, stack \in stacks :
           /\ FabErrorConstructor(ObjRef(inp[1]), ObjRef(inp[2]), cause, stack)
           /\ call' = [NoCall EXCEPT !.fn = "new", !.spec = ObjRef(inp[1]),
                                     !.context = ObjRef(inp[2]), !.cause = cause]
    /\ pc' = "done"
    /\ ret' = Return(ErrRef(Len(errs) + 1))
    /\ UNCHANGED <<cur, lvl, visited, matched>>

\* new FabError(spec, context, cause) is called and returns the new instance
NewFabError(inputs) == NewFabErrorWith(inputs, CauseArgs, OneStack)

\* new TypeError(message, { cause }) and the like in application code: the native
\* constructor stores whatever cause it is given
NewPlainError(inputs) ==
    /\ pc = "idle"
    /\ Len(errs) < MaxErrs
    /\ \E inp \in inputs, cause \in CauseArgs :
           errs' = Append(errs, PlainError(inp.cls, inp.message, inp.code, cause, inp.stack))
    /\ UNCHANGED <<objs, callVars>>

\* error.cause = value, assigned directly by application code, for the values given
AssignCauseOf(values) ==
    /\ pc = "idle"
    /\ \E e \in DOMAIN errs, v \in values :
           /\ errs[e].cause # v
           /\ errs' = [errs EXCEPT ![e].cause = v]
    /\ UNCHANGED <<objs, callVars>>

AssignCause == AssignCauseOf({ErrRef(i) : i \in DOMAIN errs} \cup NonErrorValues)

----------------------------------------------------------------------------
(* Outcomes of a call *)

\* an error of class cls raised at source line `site`
Raise(cls, msg, site) ==
    [kind |-> "throw", val |-> Undef, cls |-> cls, code |-> Undef, msg |-> msg, site |-> site,
     json |-> Undef]

\* NewError raising a TypeError for the argument that is no array
NewErrorTyped(msg, site) == Raise(IF site = 137 THEN "TypeError" ELSE "Error", msg, site)

\* `new Error(msg)`: a plain Error, which carries no code
NewError(msg, site) == Raise("Error", msg, site)

\* `throw new Error(msg)` at source line `site`
Throw(msg, site) == NewError(msg, site)

\* the node the call is looking at
Node(v) == errs[v.n]

\* the cause link followed only when the cause is a FabError
NextInChainFabOnly(e) ==
    IF e.cause.t = "err" /\ errs[e.cause.n].cls = "FabError" THEN e.cause ELSE Undef

\* the cause link both inspectors follow: the cause when it is an Error instance
NextInChain(e) == IF IsErrorValue(e.cause) THEN e.cause ELSE Undef

\* the call reads the fields of node i
Visit(i) == IF Len(visited) < MaxVisited THEN Append(visited, i) ELSE visited

\* Array.isArray(m) ? m : [m]
ExpectedMessages(m) == IF m.arr THEN m.items ELSE <<m.val>>

----------------------------------------------------------------------------
(* hasErrorInChain *)

\* CodeMatch with == and no typeof test: a numeric code equals its digits
CodeMatchLoose(e, criteria) ==
    IF criteria.code.t # "undef"
    THEN e.code.t \in {"str", "num"} /\ StringOf(e.code) = StringOf(criteria.code)
    ELSE TRUE

CodeMatch(e, criteria) ==
    IF criteria.code.t # "undef"
    THEN e.code.t = "str" /\ e.code = criteria.code
    ELSE TRUE

TypeMatch(e, criteria) ==
    IF criteria.type # "" THEN InstanceOf(e.cls, criteria.type) ELSE TRUE

\* MessageMatch without the two toLowerCase calls
MessageMatchCaseSensitive(e, criteria) ==
    IF criteria.message.def
    THEN IF e.message.t = "str"
         THEN LET expectedMessages == ExpectedMessages(criteria.message)
              IN  \A i \in 1..Len(expectedMessages) :
                      /\ expectedMessages[i].t = "str"
                      /\ Includes(e.message.s, expectedMessages[i].s)
         ELSE FALSE
    ELSE TRUE

MessageMatch(e, criteria) ==
    IF criteria.message.def
    THEN IF e.message.t = "str"
         THEN LET currentMessageLower == ToLowerCase(e.message.s)
                  expectedMessages == ExpectedMessages(criteria.message)
              IN  \A i \in 1..Len(expectedMessages) :
                      /\ expectedMessages[i].t = "str"
                      /\ Includes(currentMessageLower, ToLowerCase(expectedMessages[i].s))
         ELSE FALSE
    ELSE TRUE

\* hasErrorInChain(start, criteria) is called
HasCall(start, criteria) ==
    /\ pc = "idle"
    /\ pc' = "has_loop"
    /\ call' = [NoCall EXCEPT !.fn = "has", !.start = start, !.criteria = criteria]
    /\ cur' = start
    /\ lvl' = 0
    /\ visited' = <<>>
    /\ matched' = NoMatch
    /\ ret' = NoRet
    /\ UNCHANGED <<objs, errs>>

\* HasIter with the three flags declared outside the loop and only ever set:
\* a criterion met by an earlier node stays met
HasIterSticky ==
    /\ pc = "has_loop"
    /\ IF ~Truthy(cur)
       THEN /\ ret' = Return(Bool(FALSE))
            /\ pc' = "done"
            /\ UNCHANGED <<cur, visited, matched>>
       ELSE LET e == Node(cur)
                first == visited = <<>>
                codeMatch == (~first /\ matched.code) \/ CodeMatch(e, call.criteria)
                typeMatch == (~first /\ matched.type) \/ TypeMatch(e, call.criteria)
                messageMatch == (~first /\ matched.message) \/ MessageMatch(e, call.criteria)
            IN  /\ visited' = Visit(cur.n)
                /\ matched' = [code |-> codeMatch, type |-> typeMatch, message |-> messageMatch]
                /\ IF codeMatch /\ typeMatch /\ messageMatch
                   THEN /\ ret' = Return(Bool(TRUE))
                        /\ pc' = "done"
                        /\ UNCHANGED cur
                   ELSE /\ cur' = NextInChain(e)
                        /\ UNCHANGED <<pc, ret>>
    /\ UNCHANGED <<objs, errs, call, lvl>>

\* HasIter with a guard against cycles: the search ends with false at a node it
\* has examined before
HasIterOnce ==
    /\ pc = "has_loop"
    /\ IF ~Truthy(cur) \/ (\E j \in DOMAIN visited : visited[j] = cur.n)
       THEN /\ ret' = Return(Bool(FALSE))
            /\ pc' = "done"
            /\ UNCHANGED <<cur, visited, matched>>
       ELSE LET e == Node(cur)
                codeMatch == CodeMatch(e, call.criteria)
                typeMatch == TypeMatch(e, call.criteria)
                messageMatch == MessageMatch(e, call.criteria)
            IN  /\ visited' = Visit(cur.n)
                /\ matched' = [code |-> codeMatch, type |-> typeMatch, message |-> messageMatch]
                /\ IF codeMatch /\ typeMatch /\ messageMatch
                   THEN /\ ret' = Return(Bool(TRUE))
                        /\ pc' = "done"
                        /\ UNCHANGED cur
                   ELSE /\ cur' = NextInChain(e)
                        /\ UNCHANGED <<pc, ret>>
    /\ UNCHANGED <<objs, errs, call, lvl>>

\* HasIter noting a match (in lvl) and walking on to the end of the chain
HasIterExhaustive ==
    /\ pc = "has_loop"
    /\ IF ~Truthy(cur)
       THEN /\ ret' = Return(Bool(lvl = 1))
            /\ pc' = "done"
            /\ UNCHANGED <<cur, lvl, visited, matched>>
       ELSE LET e == Node(cur)
                codeMatch == CodeMatch(e, call.criteria)
                typeMatch == TypeMatch(e, call.criteria)
                messageMatch == MessageMatch(e, call.criteria)
            IN  /\ visited' = Visit(cur.n)
                /\ matched' = [code |-> codeMatch, type |-> typeMatch, message |-> messageMatch]
                /\ lvl' = IF codeMatch /\ typeMatch /\ messageMatch THEN 1 ELSE lvl
                /\ cur' = NextInChain(e)
                /\ UNCHANGED <<pc, ret>>
    /\ UNCHANGED <<objs, errs, call>>

\* the test of the while loop and, when it passes, one run of its body
HasIter ==
    /\ pc = "has_loop"
    /\ IF ~Truthy(cur)
       THEN /\ ret' = Return(Bool(FALSE))
            /\ pc' = "done"
            /\ UNCHANGED <<cur, visited, matched>>
       ELSE LET e == Node(cur)
                codeMatch == CodeMatch(e, call.criteria)
                typeMatch == TypeMatch(e, call.criteria)
                messageMatch == MessageMatch(e, call.criteria)
            IN  /\ visited' = Visit(cur.n)
                /\ matched' = [code |-> codeMatch, type |-> typeMatch, message |-> messageMatch]
                /\ IF codeMatch /\ typeMatch /\ messageMatch
                   THEN /\ ret' = Return(Bool(TRUE))
                        /\ pc' = "done"
                        /\ UNCHANGED cur
                   ELSE /\ cur' = NextInChain(e)
                        /\ UNCHANGED <<pc, ret>>
    /\ UNCHANGED <<objs, errs, call, lvl>>

----------------------------------------------------------------------------
(* checkErrorChain *)

\* String(code) || fallback
CodeText(code, fallback) == StringOf(OrElse(Str(StringOf(code)), Str(fallback)))

\* ErrorPrefix counting levels from one
ErrorPrefixOneBased(levelIndex) == "Error chain mismatch at level " \o ToString(levelIndex + 1)

ErrorPrefix(levelIndex) == "Error chain mismatch at level " \o ToString(levelIndex)

\* the first expected fragment the message check rejects, 0 when there is none
FirstMissing(currentMessageLower, expectedMessages) ==
    LET bad == { i \in 1..Len(expectedMessages) :
                   \/ expectedMessages[i].t # "str"
                   \/ ~Includes(currentMessageLower, ToLowerCase(expectedMessages[i].s)) }
    IN  IF bad = {} THEN 0 ELSE CHOOSE i \in bad : \A j \in bad : i <= j

\* LevelOutcome with the type check placed before the code check
LevelOutcomeTypeFirst(e, expectedLevel, levelIndex) ==
    LET errorPrefix == ErrorPrefix(levelIndex)
        codeFails == /\ expectedLevel.code.t # "undef"
                     /\ (e.code.t # "str" \/ e.code # expectedLevel.code)
        typeFails == /\ expectedLevel.type # ""
                     /\ ~InstanceOf(e.cls, expectedLevel.type)
        expectedMessages == ExpectedMessages(expectedLevel.message)
        missing == IF e.message.t = "str"
                   THEN FirstMissing(ToLowerCase(e.message.s), expectedMessages)
                   ELSE 0
    IN  IF typeFails
        THEN Throw(errorPrefix \o ": Expected type '" \o expectedLevel.type
                     \o "', got '" \o e.cls
                     \o "'. Message: \"" \o StringOf(e.message) \o "\"", 166)
        ELSE IF codeFails
        THEN Throw(errorPrefix \o ": Expected code '" \o StringOf(expectedLevel.code)
                     \o "', got '" \o CodeText(e.code, "undefined")
                     \o "'. Message: \"" \o StringOf(e.message) \o "\"", 154)
        ELSE IF expectedLevel.message.def /\ e.message.t # "str"
        THEN Throw(errorPrefix \o ": Error message is not a string or missing for code '"
                     \o CodeText(e.code, "unknown") \o "'.", 175)
        ELSE IF expectedLevel.message.def /\ missing # 0
        THEN Throw(errorPrefix \o ": Message does not contain expected text '"
                     \o StringOf(expectedMessages[missing])
                     \o "'. Full message: \"" \o e.message.s \o "\"", 182)
        ELSE NoRet

\* the checks of one level on node e: the first throw of the loop body, or NoRet
LevelOutcome(e, expectedLevel, levelIndex) ==
    LET errorPrefix == ErrorPrefix(levelIndex)
        codeFails == /\ expectedLevel.code.t # "undef"
                     /\ (e.code.t # "str" \/ e.code # expectedLevel.code)
        typeFails == /\ expectedLevel.type # ""
                     /\ ~InstanceOf(e.cls, expectedLevel.type)
        expectedMessages == ExpectedMessages(expectedLevel.message)
        missing == IF e.message.t = "str"
                   THEN FirstMissing(ToLowerCase(e.message.s), expectedMessages)
                   ELSE 0
    IN  IF codeFails
        THEN Throw(errorPrefix \o ": Expected code '" \o StringOf(expectedLevel.code)
                     \o "', got '" \o CodeText(e.code, "undefined")
                     \o "'. Message: \"" \o StringOf(e.message) \o "\"", 154)
        ELSE IF typeFails
        THEN Throw(errorPrefix \o ": Expected type '" \o expectedLevel.type
                     \o "', got '" \o e.cls
                     \o "'. Message: \"" \o StringOf(e.message) \o "\"", 166)
        ELSE IF expectedLevel.message.def /\ e.message.t # "str"
        THEN Throw(errorPrefix \o ": Error message is not a string or missing for code '"
                     \o CodeText(e.code, "unknown") \o "'.", 175)
        ELSE IF expectedLevel.message.def /\ missing # 0
        THEN Throw(errorPrefix \o ": Message does not contain expected text '"
                     \o StringOf(expectedMessages[missing])
                     \o "'. Full message: \"" \o e.message.s \o "\"", 182)
        ELSE NoRet

\* CheckCall without the Array.isArray guard: what is no array has no levels
CheckCallNoGuard(start, isArray, levels) ==
    /\ pc = "idle"
    /\ call' = [NoCall EXCEPT !.fn = "check", !.start = start,
                              !.isArray = isArray, !.levels = levels]
    /\ cur' = start
    /\ lvl' = 0
    /\ visited' = <<>>
    /\ matched' = NoMatch
    /\ ret' = NoRet
    /\ pc' = "check_loop"
    /\ UNCHANGED <<objs, errs>>

\* checkErrorChain(start, expectedChain) is called: the initialisations and the
\* Array.isArray guard
CheckCall(start, isArray, levels) ==
    /\ pc = "idle"
    /\ call' = [NoCall EXCEPT !.fn = "check", !.start = start,
                              !.isArray = isArray, !.levels = levels]
    /\ cur' = start
    /\ lvl' = 0
    /\ visited' = <<>>
    /\ matched' = NoMatch
    /\ IF ~isArray
       THEN /\ ret' = Throw("checkErrorChain: expectedChain must be an array.", 137)
            /\ pc' = "done"
       ELSE /\ ret' = NoRet
            /\ pc' = "check_loop"
    /\ UNCHANGED <<objs, errs>>

\* CheckLevel as a loop over the chain that does not advance the level index
CheckLevelStuck ==
    /\ pc = "check_loop"
    /\ lvl < Len(call.levels)
    /\ LET expectedLevel == call.levels[lvl + 1]
       IN  IF ~Truthy(cur)
           THEN /\ ret' = Throw(ErrorPrefix(lvl) \o ": Expected level with code '"
                                  \o StringOf(OrElse(expectedLevel.code, Str("any")))
                                  \o "' but error chain ended.", 146)
                /\ pc' = "done"
                /\ UNCHANGED <<cur, lvl, visited>>
           ELSE LET e == Node(cur)
                    outcome == LevelOutcome(e, expectedLevel, lvl)
                IN  /\ visited' = Visit(cur.n)
                    /\ IF outcome.kind = "throw"
                       THEN /\ ret' = outcome
                            /\ pc' = "done"
                            /\ UNCHANGED <<cur, lvl>>
                       ELSE /\ cur' = NextInChain(e)
                            /\ UNCHANGED <<pc, ret, lvl>>
    /\ UNCHANGED <<objs, errs, call, matched>>

\* one run of the body of the for loop
CheckLevel ==
    /\ pc = "check_loop"
    /\ lvl < Len(call.levels)
    /\ LET expectedLevel == call.levels[lvl + 1]
       IN  IF ~Truthy(cur)
           THEN /\ ret' = Throw(ErrorPrefix(lvl) \o ": Expected level with code '"
                                  \o StringOf(OrElse(expectedLevel.code, Str("any")))
                                  \o "' but error chain ended.", 146)
                /\ pc' = "done"
                /\ UNCHANGED <<cur, lvl, visited>>
           ELSE LET e == Node(cur)
                    outcome == LevelOutcome(e, expectedLevel, lvl)
                IN  /\ visited' = Visit(cur.n)
                    /\ IF outcome.kind = "throw"
                       THEN /\ ret' = outcome
                            /\ pc' = "done"
                            /\ UNCHANGED <<cur, lvl>>
                       ELSE /\ cur' = NextInChain(e)
                            /\ lvl' = lvl + 1
                            /\ UNCHANGED <<pc, ret>>
    /\ UNCHANGED <<objs, errs, call, matched>>

\* CheckTail without the excess check
CheckTailNoExcess ==
    /\ pc = "check_loop"
    /\ lvl >= Len(call.levels)
    /\ ret' = Return(Bool(TRUE))
    /\ pc' = "done"
    /\ UNCHANGED <<objs, errs, call, cur, lvl, visited, matched>>

\* CheckTail reporting the number of nodes walked plus the one found, not the
\* number of expected levels
CheckTailOffByOne ==
    /\ pc = "check_loop"
    /\ lvl >= Len(call.levels)
    /\ IF Truthy(cur)
       THEN LET nextError == Node(cur)
            IN  /\ ret' = Throw("Error chain validation failed: Error chain has more levels than expected ("
                               \o ToString(Len(call.levels) + 1) \o "). Next level error: "
                               \o nextError.cls \o " [" \o CodeText(nextError.code, "unknown")
                               \o "] \"" \o StringOf(nextError.message) \o "\"", 198)
                /\ visited' = Visit(cur.n)
       ELSE /\ ret' = Return(Bool(TRUE))
            /\ UNCHANGED visited
    /\ pc' = "done"
    /\ UNCHANGED <<objs, errs, call, cur, lvl, matched>>

\* CheckTail reporting the failure to the installed logger before raising
CheckTailLogging ==
    /\ pc = "check_loop"
    /\ lvl >= Len(call.levels)
    /\ IF Truthy(cur)
       THEN LET logger == Get(objs[Dependencies].props, "logger")
            IN  /\ ret' = Throw("Error chain validation failed: Error chain has more levels than expected", 198)
                /\ visited' = Visit(cur.n)
                /\ objs' = IF logger.t = "obj" THEN Invoke(objs, logger.n) ELSE objs
       ELSE /\ ret' = Return(Bool(TRUE))
            /\ UNCHANGED <<visited, objs>>
    /\ pc' = "done"
    /\ UNCHANGED <<errs, call, cur, lvl, matched>>

\* after the loop: the excess check and `return true`
CheckTail ==
    /\ pc = "check_loop"
    /\ lvl >= Len(call.levels)
    /\ IF Truthy(cur)
       THEN LET nextError == Node(cur)
            IN  /\ ret' = Throw("Error chain validation failed: Error chain has more levels than expected ("
                               \o ToString(Len(call.levels)) \o "). Next level error: "
                               \o nextError.cls \o " [" \o CodeText(nextError.code, "unknown")
                               \o "] \"" \o StringOf(nextError.message) \o "\"", 198)
                /\ visited' = Visit(cur.n)
       ELSE /\ ret' = Return(Bool(TRUE))
            /\ UNCHANGED visited
    /\ pc' = "done"
    /\ UNCHANGED <<objs, errs, call, cur, lvl, matched>>

\* the caller takes the outcome; the next operation starts from a clean slate
Finish ==
    /\ pc = "done"
    /\ pc' = "idle"
    /\ call' = NoCall
    /\ cur' = Undef
    /\ lvl' = 0
    /\ visited' = <<>>
    /\ matched' = NoMatch
    /\ ret' = NoRet
    /\ UNCHANGED <<objs, errs>>

----------------------------------------------------------------------------
(* Inputs of the calls *)

\* the criteria hasErrorInChain is called with
HasInputs ==
    { NoCriteria,
      Crit(Str("L1"), "", NoMsg),
      Crit(Undef, "TypeError", NoMsg),
      Crit(Str("L1"), "TypeError", NoMsg),
      Crit(Str("7"), "", NoMsg),
      Crit(Str("L1"), "FabError", MsgOne(Str("bad io"))),
      Crit(Str("L1"), "Error", MsgOne(Str("PROBLEM"))),
      Crit(Undef, "", MsgArr(<<Str("TOP"), Str("io")>>)),
      Crit(Undef, "", MsgArr(<<Str("top"), Num(5)>>)) }

\* the levels the expected chains of checkErrorChain are made of
LevelFab == Crit(Str("L1"), "FabError", MsgOne(Str("bad io")))

LevelType == Crit(Undef, "TypeError", MsgArr(<<Str("A TYPE"), Str("problem")>>))

LevelAny == NoCriteria

LevelRange == Crit(Str("L1"), "RangeError", MsgOne(Str("zzz")))

LevelText == Crit(Undef, "Error", MsgArr(<<Str("top"), Str("zzz")>>))

\* the expected chains checkErrorChain is called with
ExpectedInputs ==
    { <<>>,
      <<LevelFab>>, <<LevelType>>, <<LevelAny>>, <<LevelRange>>, <<LevelText>>,
      <<LevelFab, LevelType>>, <<LevelFab, LevelFab>>, <<LevelAny, LevelAny>>,
      <<LevelFab, LevelRange>>, <<LevelAny, LevelText>>, <<LevelType, LevelFab>>,
      <<LevelFab, LevelType, LevelAny>>, <<LevelAny, LevelAny, LevelFab>>,
      <<LevelFab, LevelFab, LevelType>> }

\* the values an inspector is started on
Starts == {Undef, Null} \cup {ErrRef(i) : i \in DOMAIN errs}

----------------------------------------------------------------------------
(* The chain inspectors on chains built by the application *)

HasCalls == \E start \in Starts, criteria \in HasInputs : HasCall(start, criteria)

CheckCalls ==
    \E start \in Starts, levels \in ExpectedInputs :
        CheckCall(start, TRUE, levels)

\* checkErrorChain(err, null), checkErrorChain(err, {})
CheckCallsNoArray == \E start \in Starts : CheckCall(start, FALSE, <<>>)

Next ==
    \/ NewFabError(ChainFabInputs)
    \/ NewPlainError(PlainInputs)
    \/ HasCalls
    \/ HasIter
    \/ CheckCalls
    \/ CheckCallsNoArray
    \/ CheckLevel
    \/ CheckTail
    \/ Finish

Spec == Init /\ [][Next]_vars

----------------------------------------------------------------------------
(* Writes to error.context by application code *)

\* o[k] = v on an object: a frozen object keeps its properties
SetProperty(o, k, v) ==
    IF o.frozen THEN o ELSE [o EXCEPT !.props = Put(o.props, k, v)]

\* delete o[k]
DeleteProperty(o, k) ==
    IF o.frozen THEN o
    ELSE [o EXCEPT !.props = [x \in (DOMAIN o.props) \ {k} |-> o.props[x]]]

\* what the writer observes: strict code gets a TypeError for a rejected write,
\* sloppy code gets nothing
WriteOutcome(rejected, strict, v) ==
    IF rejected /\ strict
    THEN Raise("TypeError", "Cannot assign to read only property", 292)
    ELSE Return(v)

WriteKeys == {"a", "b", "z"}

WriteValues == { Num(9), Undef }

\* error.context[k] = v
ContextSet ==
    /\ pc = "idle"
    /\ \E e \in DOMAIN errs, k \in WriteKeys, v \in WriteValues, strict \in BOOLEAN :
           /\ errs[e].context.t = "obj"
           /\ LET o == errs[e].context.n
              IN  /\ objs' = [objs EXCEPT ![o] = SetProperty(objs[o], k, v)]
                  /\ ret' = WriteOutcome(objs[o].frozen, strict, v)
           /\ call' = [NoCall EXCEPT !.fn = "set", !.start = ErrRef(e),
                                     !.key = k, !.value = v]
    /\ pc' = "done"
    /\ UNCHANGED <<errs, cur, lvl, visited, matched>>

\* delete error.context[k]
ContextDelete ==
    /\ pc = "idle"
    /\ \E e \in DOMAIN errs, k \in WriteKeys, strict \in BOOLEAN :
           /\ errs[e].context.t = "obj"
           /\ LET o == errs[e].context.n
              IN  /\ objs' = [objs EXCEPT ![o] = DeleteProperty(objs[o], k)]
                  /\ ret' = WriteOutcome(objs[o].frozen /\ k \in DOMAIN objs[o].props,
                                         strict, Bool(TRUE))
           /\ call' = [NoCall EXCEPT !.fn = "delete", !.start = ErrRef(e), !.key = k]
    /\ pc' = "done"
    /\ UNCHANGED <<errs, cur, lvl, visited, matched>>

\* the pairs whose caller context stores an object as a value
NestedFabInputs == { <<3, 8>>, <<2, 8>> }

NestedKeys == {"n", "z"}

\* error.context[k][j] = v: a write to an object stored as a context value
NestedSet ==
    /\ pc = "idle"
    /\ \E e \in DOMAIN errs, j \in NestedKeys, v \in WriteValues, strict \in BOOLEAN :
           /\ errs[e].context.t = "obj"
           /\ \E k \in DOMAIN objs[errs[e].context.n].props :
                  LET inner == objs[errs[e].context.n].props[k]
                  IN  /\ inner.t = "obj"
                      /\ objs' = [objs EXCEPT ![inner.n] = SetProperty(objs[inner.n], j, v)]
                      /\ ret' = WriteOutcome(objs[inner.n].frozen, strict, v)
                      /\ call' = [NoCall EXCEPT !.fn = "nested_set", !.start = ErrRef(e),
                                                !.context = inner, !.key = j, !.value = v]
    /\ pc' = "done"
    /\ UNCHANGED <<errs, cur, lvl, visited, matched>>

\* construction of FabErrors whose context holds an object, and writes to both levels
NextNested ==
    \/ NewFabError(NestedFabInputs)
    \/ ContextSet
    \/ NestedSet
    \/ Finish

SpecNested == Init /\ [][NextNested]_vars

\* construction of FabErrors and writes to their contexts
NextCtx ==
    \/ NewFabError(FabInputs)
    \/ ContextSet
    \/ ContextDelete
    \/ Finish

SpecCtx == Init /\ [][NextCtx]_vars

----------------------------------------------------------------------------
(* The chain inspectors on chains whose cause links the application has *)
(* reassigned, cyclic chains included                                    *)

CyclicHasInputs ==
    { Crit(Str("L1"), "", NoMsg),
      Crit(Undef, "RangeError", NoMsg),
      Crit(Undef, "", MsgOne(Str("problem"))) }

CyclicExpectedInputs == { <<LevelAny>>, <<LevelFab, LevelType>>, <<LevelAny, LevelAny, LevelAny>> }

CyclicPlainInputs ==
    { [cls |-> "TypeError", message |-> Str("A Type Problem"), code |-> Undef,
       stack |-> Str("TypeError stack trace")] }

NextCyclic ==
    \/ NewFabError(ChainFabInputs)
    \/ NewPlainError(CyclicPlainInputs)
    \/ AssignCause
    \/ \E start \in Starts, criteria \in CyclicHasInputs : HasCall(start, criteria)
    \/ HasIter
    \/ \E start \in Starts, levels \in CyclicExpectedInputs : CheckCall(start, TRUE, levels)
    \/ CheckCallsNoArray
    \/ CheckLevel
    \/ CheckTail
    \/ Finish

SpecCyclic == Init /\ [][NextCyclic]_vars

----------------------------------------------------------------------------
(* toJSON *)

\* the if-chain of toJSON with `instanceof Error` tested first
CauseKindErrorFirst(cause) ==
    IF ~Truthy(cause) THEN "none"
    ELSE IF cause.t = "err" THEN "error"
    ELSE IF cause.t = "obj" THEN "object"
    ELSE IF cause.t # "undef" THEN "value"
    ELSE "none"

\* the branch the if-chain of toJSON takes for this.cause
CauseKind(cause) ==
    IF ~Truthy(cause) THEN "none"
    ELSE IF cause.t = "err" /\ InstanceOf(errs[cause.n].cls, "FabError") THEN "fab"
    ELSE IF cause.t = "err" THEN "error"
    ELSE IF cause.t = "obj" THEN "object"
    ELSE IF cause.t # "undef" THEN "value"
    ELSE "none"

\* the literal for an Error cause with the cause's own cause added to it
ErrorCauseJSONWithCause(c) ==
    [name |-> Str(c.name), message |-> c.message, stack |-> c.stack, cause |-> c.cause]

\* { name: this.cause.name, message: this.cause.message, stack: this.cause.stack }
ErrorCauseJSON(c) == [name |-> Str(c.name), message |-> c.message, stack |-> c.stack]

\* { ...(this.cause as object) }
ObjectCauseJSON(cause) ==
    LET source == SpreadSource(objs, cause)
    IN  CopyProps(NoProps, source, DOMAIN source)

\* { value: String(this.cause) }
ValueCauseJSON(cause) == [value |-> Str(StringOf(cause))]

\* the recursion has used up the call stack
Overflow == [overflow |-> TRUE]

\* toJSON reporting the blueprint's template as the message and no cause
ToJSONFromTemplate(e, fuel) ==
    LET this == errs[e]
    IN  [name |-> Str(this.name),
         code |-> this.code,
         message |-> Field(objs, this.spec, "messageTemplate"),
         context |-> this.context,
         docs |-> this.docs,
         stack |-> this.stack,
         spec |-> [code |-> Field(objs, this.spec, "code"),
                   messageTemplate |-> Field(objs, this.spec, "messageTemplate"),
                   docs |-> Field(objs, this.spec, "docs")],
         cause |-> Undef]

RECURSIVE ToJSONFrom(_, _)
\* errs[e].toJSON(), with `fuel` nested calls left before the call stack is used up
ToJSONFrom(e, fuel) ==
    LET this == errs[e]
        kind == CauseKind(this.cause)
        causeJSON ==
            CASE kind = "fab" ->
                     IF fuel = 0 THEN Overflow ELSE ToJSONFrom(this.cause.n, fuel - 1)
              [] kind = "error" -> ErrorCauseJSON(errs[this.cause.n])
              [] kind = "object" -> ObjectCauseJSON(this.cause)
              [] kind = "value" -> ValueCauseJSON(this.cause)
              [] OTHER -> Undef
    IN  IF causeJSON = Overflow THEN Overflow
        ELSE [name |-> Str(this.name),
              code |-> this.code,
              message |-> this.message,
              context |-> this.context,
              docs |-> this.docs,
              stack |-> this.stack,
              spec |-> [code |-> Field(objs, this.spec, "code"),
                        messageTemplate |-> Field(objs, this.spec, "messageTemplate"),
                        docs |-> Field(objs, this.spec, "docs")],
              cause |-> causeJSON]

\* error.toJSON() is called on a FabError; a chain of FabErrors no longer than the
\* heap never uses up the fuel, a cyclic one always does
ToJSONCall ==
    /\ pc = "idle"
    /\ \E e \in DOMAIN errs :
           /\ errs[e].cls = "FabError"
           /\ LET json == ToJSONFrom(e, Len(errs))
              IN  ret' = IF json = Overflow
                         THEN Raise("RangeError", "Maximum call stack size exceeded", 310)
                         ELSE [Return(Undef) EXCEPT !.json = json]
           /\ call' = [NoCall EXCEPT !.fn = "toJSON", !.start = ErrRef(e)]
    /\ pc' = "done"
    /\ UNCHANGED <<objs, errs, cur, lvl, visited, matched>>

\* the causes the constructor is given in the serialization runs
JsonCauseArgs ==
    {Undef, Null, Str("why"), Num(5), ObjRef(6)} \cup {ErrRef(i) : i \in DOMAIN errs}

\* the values application code assigns to error.cause directly
AssignedValues == { ObjRef(6), Str("why"), Str(""), Num(0), Num(5), Bool(FALSE), Bool(TRUE) }

JsonPlainInputs ==
    { [cls |-> "TypeError", message |-> Str("A Type Problem"), code |-> Undef,
       stack |-> Str("TypeError stack trace")] }

\* construction, direct assignment of causes (non-Error values and Error
\* instances, so cyclic chains too), and serialization
NextJson ==
    \/ NewFabErrorWith(ChainFabInputs, JsonCauseArgs, OneStack)
    \/ NewPlainError(JsonPlainInputs)
    \/ AssignCauseOf(AssignedValues \cup {ErrRef(i) : i \in DOMAIN errs})
    \/ ToJSONCall
    \/ Finish

SpecJson == Init /\ [][NextJson]_vars

\* the traces captured when FabErrors are constructed at two places of the application
TwoStacks == { Str("at app"), Str("at lib") }

\* two caller contexts for one blueprint
MixFabInputs == { <<2, 4>>, <<2, 6>> }

MixHasInputs == { Crit(Str("L1"), "", NoMsg) }

MixExpectedInputs == { <<LevelFab>>, <<LevelAny, LevelAny>> }

\* construction at several places, serialization, and the two inspectors, in any order
NextMix ==
    \/ NewFabErrorWith(MixFabInputs, {Undef} \cup {ErrRef(i) : i \in DOMAIN errs}, TwoStacks)
    \/ ToJSONCall
    \/ \E start \in Starts, criteria \in MixHasInputs : HasCall(start, criteria)
    \/ HasIter
    \/ \E start \in Starts, levels \in MixExpectedInputs : CheckCall(start, TRUE, levels)
    \/ CheckLevel
    \/ CheckTail
    \/ Finish

SpecMix == Init /\ [][NextMix]_vars

----------------------------------------------------------------------------
(* formatMessage called directly, and through the constructor *)

\* the templates formatMessage is given; the last three are no strings
FmtTemplates ==
    { Str("Top {r} {b}"), Str("Mid {i} {q}"), Str("{a}{b}"), Str("no holes"),
      Str("{x}-{y}-{z}"), Str("{f} {s} {a}"), Str("{a b} {} {a"), Str("{a}} {{b}"),
      Str("{r}{r}"), Str(""), Num(5), Undef, Null }

\* the heap objects formatMessage is given as context
FmtContexts == {1, 4, 5, 6, 11, 12, 13, 14}

\* formatMessage(template, context)
FormatCall ==
    /\ pc = "idle"
    /\ \E template \in FmtTemplates, c \in FmtContexts :
           /\ ret' = Return(Str(formatMessage(template, objs[c].props, objs)))
           /\ call' = [NoCall EXCEPT !.fn = "format", !.value = template, !.context = ObjRef(c)]
    /\ pc' = "done"
    /\ UNCHANGED <<objs, errs, cur, lvl, visited, matched>>

\* blueprints with a template that is no string or is missing, and contexts whose
\* values are objects, functions and symbols
FmtFabInputs == { <<15, 4>>, <<16, 11>>, <<17, 13>>, <<2, 12>> }

NextFmt ==
    \/ FormatCall
    \/ NewFabErrorWith(FmtFabInputs, {Undef}, OneStack)
    \/ Finish

SpecFmt == Init /\ [][NextFmt]_vars

----------------------------------------------------------------------------
(* The dependency slot (di.ts) *)

\* the arguments setFabErrorsDependencies is called with: {}, { logger: l } for
\* each logger, and { logger: undefined }
DependencyArgs == {13, 21, 22, 23}

\* a new object holding only the argument's properties
ObjectAssignReplace(target, source) == source

\* Object.assign(target, source) on props functions
ObjectAssign(target, source) == CopyProps(target, source, DOMAIN source)

\* setFabErrorsDependencies(newDependencies)
setFabErrorsDependencies ==
    /\ pc = "idle"
    /\ \E p \in DependencyArgs :
           /\ objs' = [objs EXCEPT ![Dependencies].props =
                           ObjectAssign(objs[Dependencies].props, SpreadSource(objs, ObjRef(p)))]
           /\ call' = [NoCall EXCEPT !.fn = "setDeps", !.value = ObjRef(p)]
    /\ pc' = "done"
    /\ ret' = Return(Undef)
    /\ UNCHANGED <<errs, cur, lvl, visited, matched>>

\* the number of calls the loggers have received
LoggerCalls(l) == Get(objs[l].props, "calls").n

\* the application installs loggers and uses every operation of the core
NextDeps ==
    \/ setFabErrorsDependencies
    \/ NewFabErrorWith(ChainFabInputs, {Undef} \cup {ErrRef(i) : i \in DOMAIN errs}, OneStack)
    \/ FormatCall
    \/ ToJSONCall
    \/ \E start \in Starts, criteria \in MixHasInputs : HasCall(start, criteria)
    \/ HasIter
    \/ \E start \in Starts, levels \in MixExpectedInputs : CheckCall(start, TRUE, levels)
    \/ CheckCallsNoArray
    \/ CheckLevel
    \/ CheckTail
    \/ Finish

SpecDeps == Init /\ [][NextDeps]_vars

----------------------------------------------------------------------------
(* The inspectors as functions of the heap: the result of a whole call *)

\* hasErrorInChain with a start that is an Error only
hasErrorInChainStartOnly(currentError, criteria, fuel) ==
    IF ~Truthy(currentError) THEN "false"
    ELSE LET e == Node(currentError)
         IN  IF CodeMatch(e, criteria) /\ TypeMatch(e, criteria) /\ MessageMatch(e, criteria)
             THEN "true"
             ELSE "false"

RECURSIVE hasErrorInChain(_, _, _)
\* hasErrorInChain(currentError, criteria): "true", "false", or "loops" when the
\* loop has run fuel times without an exit (fuel is the number of Error instances,
\* so every node of the chain has then been tested and the chain is cyclic)
hasErrorInChain(currentError, criteria, fuel) ==
    IF ~Truthy(currentError) THEN "false"
    ELSE IF fuel = 0 THEN "loops"
    ELSE LET e == Node(currentError)
         IN  IF CodeMatch(e, criteria) /\ TypeMatch(e, criteria) /\ MessageMatch(e, criteria)
             THEN "true"
             ELSE hasErrorInChain(NextInChain(e), criteria, fuel - 1)

RECURSIVE checkErrorChain(_, _, _)
\* checkErrorChain(startError, expectedChain) for an array, from level levelIndex
\* on: "true", or "throws" when one of its throw statements is reached
checkErrorChain(currentErrorInChain, expectedChain, levelIndex) ==
    IF levelIndex < Len(expectedChain)
    THEN IF ~Truthy(currentErrorInChain) THEN "throws"
         ELSE LET e == Node(currentErrorInChain)
              IN  IF LevelOutcome(e, expectedChain[levelIndex + 1], levelIndex).kind = "throw"
                  THEN "throws"
                  ELSE checkErrorChain(NextInChain(e), expectedChain, levelIndex + 1)
    ELSE IF Truthy(currentErrorInChain) THEN "throws" ELSE "true"

----------------------------------------------------------------------------
(* Writes by application code to the objects a FabError was constructed from *)

\* (object, key) pairs written: a key of defaultContext the template names, a key
\* the caller's context lacks and the template names, and the blueprint's template
InputWrites == { <<1, "b">>, <<5, "r">>, <<2, "messageTemplate">> }

\* input[k] = v on a blueprint, a defaultContext or a caller's context
InputSet ==
    /\ pc = "idle"
    /\ \E t \in InputWrites, v \in { Num(9), Str("{b}") }, strict \in BOOLEAN :
           /\ objs' = [objs EXCEPT ![t[1]] = SetProperty(objs[t[1]], t[2], v)]
           /\ ret' = WriteOutcome(objs[t[1]].frozen, strict, v)
           /\ call' = [NoCall EXCEPT !.fn = "setInput", !.context = ObjRef(t[1]),
                                     !.key = t[2], !.value = v]
    /\ pc' = "done"
    /\ UNCHANGED <<errs, cur, lvl, visited, matched>>

\* construction from one blueprint and one caller context, and writes to them
NextInputs ==
    \/ NewFabErrorWith({ <<2, 5>> }, {Undef}, OneStack)
    \/ InputSet
    \/ Finish

SpecInputs == Init /\ [][NextInputs]_vars

----------------------------------------------------------------------------
(* What the claims speak of: the chain of a start value and the criteria a *)
(* node meets, stated on the heap and not through the inspectors' code    *)

\* the node the cause of node i leads to, 0 when the cause is no Error instance
CauseOf(i) == IF errs[i].cause.t = "err" THEN errs[i].cause.n ELSE 0

RECURSIVE NodeAt(_, _)
\* the node at depth d of the chain of start (start is depth 0), 0 when the chain is shorter
NodeAt(start, d) ==
    IF start.t # "err" THEN 0
    ELSE IF d = 0 THEN start.n
    ELSE LET p == NodeAt(start, d - 1) IN IF p = 0 THEN 0 ELSE CauseOf(p)

\* the nodes of the chain of start
ChainSet(start) == { NodeAt(start, d) : d \in 0..Len(errs) } \ {0}

\* the chain of start has exactly m nodes
ChainHasLength(start, m) ==
    /\ \A d \in 0..(m - 1) : NodeAt(start, d) # 0
    /\ NodeAt(start, m) = 0

\* every class of the model derives from Error directly
IsA(cls, type) == type = cls \/ type = "Error"

SameLetter(c, d) ==
    \/ c = d
    \/ \E i \in 1..Len(UpperChars) :
           {c, d} = {CharAt(UpperChars, i), CharAt(LowerChars, i)}

\* frag occurs in text at some offset, letters compared without regard to case
ContainsFold(text, frag) ==
    \E off \in 0..(Len(text) - Len(frag)) :
        \A j \in 1..Len(frag) : SameLetter(CharAt(text, off + j), CharAt(frag, j))

Fragments(m) == IF m.arr THEN { m.items[i] : i \in 1..Len(m.items) } ELSE { m.val }

MeetsCode(i, c) == c.code.t = "undef" \/ errs[i].code = c.code

MeetsType(i, c) == c.type = "" \/ IsA(errs[i].cls, c.type)

MeetsMessage(i, c) ==
    \/ ~c.message.def
    \/ /\ errs[i].message.t = "str"
       /\ \A f \in Fragments(c.message) : f.t = "str" /\ ContainsFold(errs[i].message.s, f.s)

MeetsAll(i, c) == MeetsCode(i, c) /\ MeetsType(i, c) /\ MeetsMessage(i, c)

\* the first m expected levels are met by the nodes at their depths
LevelsMet(start, levels, m) ==
    \A d \in 0..(m - 1) : NodeAt(start, d) # 0 /\ MeetsAll(NodeAt(start, d), levels[d + 1])

HasDone == pc = "done" /\ call.fn = "has"

CheckDone == pc = "done" /\ call.fn = "check"

----------------------------------------------------------------------------
(* Claims *)

\* C1: hasErrorInChain returns true if and only if some node of the chain of
\* start meets every supplied criterion on that one node; criteria met only by
\* different nodes give false, and so does a null or undefined start.
C1_HasIffOneNodeMeetsAll ==
    HasDone =>
        /\ ret.kind = "return"
        /\ (ret.val = Bool(TRUE)) <=> (\E i \in ChainSet(call.start) : MeetsAll(i, call.criteria))
        /\ (ret.val = Bool(FALSE)) <=> ~(\E i \in ChainSet(call.start) : MeetsAll(i, call.criteria))
        /\ call.start.t # "err" => ret.val = Bool(FALSE)

\* a search whose code criterion and type criterion are each met in the chain,
\* by different nodes only, has returned false
C1_Witness ==
    /\ HasDone
    /\ ret.val = Bool(FALSE)
    /\ call.criteria.code.t = "str" /\ call.criteria.type # ""
    /\ \E i \in ChainSet(call.start) : MeetsCode(i, call.criteria)
    /\ \E i \in ChainSet(call.start) : MeetsType(i, call.criteria)

\* C2: checkErrorChain returns true exactly when the chain has as many nodes as
\* expectedLevels has entries and every node meets the level of its depth; in
\* every other case it raises, and it never returns false.
C2_CheckTrueIffPositionalMatch ==
    CheckDone =>
        /\ ret.kind \in {"return", "throw"}
        /\ ret.kind = "return" => ret.val = Bool(TRUE)
        /\ (ret.kind = "return") <=>
               /\ call.isArray
               /\ ChainHasLength(call.start, Len(call.levels))
               /\ LevelsMet(call.start, call.levels, Len(call.levels))

\* a chain of two nodes has been accepted against two expected levels
C2_Witness ==
    /\ CheckDone
    /\ ret = Return(Bool(TRUE))
    /\ Len(call.levels) = 2
    /\ call.levels[1].code.t = "str"

\* the code a premature-end message names for a level: the expected code, or any
ExpectedCodeText(level) == IF level.code.t = "undef" THEN "any" ELSE level.code.s

\* C3: when the chain has k nodes, more than k levels are expected and the first
\* k levels are met, checkErrorChain raises an error whose message names level
\* index k and the code expected at level k, or 'any' when none was expected;
\* a null or undefined start is the case k = 0.
C3_PrematureEndNamesLevelAndCode ==
    CheckDone /\ call.isArray =>
        \A k \in 0..Len(errs) :
            ( /\ ChainHasLength(call.start, k)
              /\ k < Len(call.levels)
              /\ LevelsMet(call.start, call.levels, k) )
            => /\ ret.kind = "throw"
               /\ Includes(ret.msg, "at level " \o ToString(k) \o ":")
               /\ Includes(ret.msg, "with code '" \o ExpectedCodeText(call.levels[k + 1]) \o "'")
               /\ Includes(ret.msg, "error chain ended")
               /\ call.start.t # "err" => k = 0

\* a chain of two nodes met its two levels and a third level, with no code, was expected
C3_Witness ==
    /\ CheckDone
    /\ ChainHasLength(call.start, 2)
    /\ Len(call.levels) = 3
    /\ LevelsMet(call.start, call.levels, 2)
    /\ call.levels[3].code.t = "undef"
    /\ ret.kind = "throw"

\* C4: when every expected level is met and the last matched node still has an
\* Error cause, checkErrorChain raises an error whose message states the number
\* of expected levels and the next node's type name, its code if it has one,
\* and its message.
C4_ExcessNamesCountAndNextNode ==
    CheckDone /\ call.isArray =>
        LET m == Len(call.levels)
            next == NodeAt(call.start, m)
        IN  (LevelsMet(call.start, call.levels, m) /\ next # 0)
            => /\ ret.kind = "throw"
               /\ Includes(ret.msg, "more levels than expected (" \o ToString(m) \o ")")
               /\ Includes(ret.msg, "Next level error: " \o errs[next].cls \o " [")
               /\ errs[next].code.t = "str" => Includes(ret.msg, "[" \o errs[next].code.s \o "]")
               /\ errs[next].message.t = "str"
                      => Includes(ret.msg, "\"" \o errs[next].message.s \o "\"")

\* one level was expected and met, and the next node, which has a code, was reported
C4_Witness ==
    /\ CheckDone
    /\ Len(call.levels) = 1
    /\ call.levels[1].code.t = "str"
    /\ LevelsMet(call.start, call.levels, 1)
    /\ NodeAt(call.start, 1) # 0
    /\ errs[NodeAt(call.start, 1)].code.t = "str"
    /\ ret.kind = "throw"

\* the node the search examined last
LastVisited == visited[Len(visited)]

\* C5: hasErrorInChain never raises: whatever it is started on, it returns a
\* boolean, and a node whose code is missing or no string, or whose message is
\* no string, counts as a non-match of that criterion.
C5_HasNeverRaises ==
    call.fn = "has" =>
        /\ ret.kind # "throw"
        /\ pc = "done" => ret \in { Return(Bool(TRUE)), Return(Bool(FALSE)) }
        /\ visited # <<>> =>
               /\ (call.criteria.code.t # "undef" /\ errs[LastVisited].code.t # "str")
                      => ~matched.code
               /\ (call.criteria.message.def /\ errs[LastVisited].message.t # "str")
                      => ~matched.message

\* a search by code and message has examined a node whose code is a number and
\* whose message is no string, and has returned false
C5_Witness ==
    /\ HasDone
    /\ ret = Return(Bool(FALSE))
    /\ call.criteria.code.t # "undef" /\ call.criteria.message.def
    /\ visited # <<>>
    /\ errs[LastVisited].code.t = "num"
    /\ errs[LastVisited].message.t # "str"

\* the source lines at which checkErrorChain throws
CheckThrowSites == {137, 146, 154, 166, 175, 182, 198}

\* C6: every error checkErrorChain raises is of one kind, a plain Error that is
\* no FabError and carries no code, whichever of its throw statements raised it.
C6_CheckRaisesPlainErrorOnly ==
    (CheckDone /\ ret.kind = "throw") =>
        /\ ret.cls = "Error"
        /\ ret.code = Undef
        /\ ret.site \in CheckThrowSites

\* a type mismatch has been raised
C6_Witness ==
    /\ CheckDone
    /\ ret.kind = "throw"
    /\ ret.site = 166

\* C7: when expectedLevels is no array, checkErrorChain raises the fixed message
\* for every start value, a cyclic chain included, before it reads any field of
\* any chain node.
C7_NonArrayRaisesFixedMessageFirst ==
    (call.fn = "check" /\ ~call.isArray) =>
        /\ pc = "done"
        /\ ret.kind = "throw"
        /\ ret.msg = "checkErrorChain: expectedChain must be an array."
        /\ visited = <<>>

\* the call with no array was started on a node of a cyclic chain
C7_Witness ==
    /\ CheckDone
    /\ ~call.isArray
    /\ call.start.t = "err"
    /\ NodeAt(call.start, Len(errs)) # 0

\* every fragment of a message criterion is a string
StringFragments(m) == \A f \in Fragments(m) : f.t = "str"

\* the source lines at which the message check of checkErrorChain throws
MessageThrowSites == {175, 182}

\* C8: a message criterion is met by a node exactly when the node's message is a
\* string and every expected fragment occurs in it without regard to case; both
\* inspectors decide the message check of a node by this one rule.
C8_OneMessageRule ==
    /\ (call.fn = "has" /\ visited # <<>> /\ call.criteria.message.def
            /\ StringFragments(call.criteria.message))
           => (matched.message <=> MeetsMessage(LastVisited, call.criteria))
    /\ (call.fn = "check" /\ call.isArray) =>
           /\ \A d \in 0..(lvl - 1) :
                  (call.levels[d + 1].message.def /\ StringFragments(call.levels[d + 1].message))
                      => MeetsMessage(NodeAt(call.start, d), call.levels[d + 1])
           /\ (pc = "done" /\ ret.kind = "throw" /\ lvl < Len(call.levels) /\ cur.t = "err"
                   /\ call.levels[lvl + 1].message.def
                   /\ StringFragments(call.levels[lvl + 1].message)
                   /\ MeetsCode(cur.n, call.levels[lvl + 1])
                   /\ MeetsType(cur.n, call.levels[lvl + 1]))
                  => /\ ret.site \in MessageThrowSites
                     /\ ~MeetsMessage(cur.n, call.levels[lvl + 1])

\* a search for two fragments written in another case than the message has them has matched
C8_Witness ==
    /\ HasDone
    /\ call.criteria.message = MsgArr(<<Str("TOP"), Str("io")>>)
    /\ matched.message
    /\ ~Includes(errs[LastVisited].message.s, "TOP")

\* the own properties a spread copies from the value behind r
PropsOf(r) == IF r.t = "obj" THEN objs[r.n].props ELSE NoProps

NewDone == pc = "done" /\ call.fn = "new"

\* C9: the context of a constructed FabError has exactly the keys of
\* spec.defaultContext and of the caller context; a key of the caller context
\* carries the caller's value, a key of defaultContext alone the default value.
C9_ContextIsUnionCallerWins ==
    NewDone =>
        LET ctx == objs[errs[ret.val.n].context.n].props
            d == PropsOf(Field(objs, call.spec, "defaultContext"))
            c == PropsOf(call.context)
        IN  /\ DOMAIN ctx = (DOMAIN d) \cup (DOMAIN c)
            /\ \A k \in DOMAIN c : ctx[k] = c[k]
            /\ \A k \in (DOMAIN d) \ (DOMAIN c) : ctx[k] = d[k]

\* defaults {a: 1, b: 2} and caller context {b: 3} gave {a: 1, b: 3}
C9_Witness ==
    /\ NewDone
    /\ PropsOf(Field(objs, call.spec, "defaultContext")) = [a |-> Num(1), b |-> Num(2)]
    /\ PropsOf(call.context) = [b |-> Num(3)]
    /\ objs[errs[ret.val.n].context.n].props = [a |-> Num(1), b |-> Num(3)]

\* the context of FabError e as an observer reads it
ContextOf(heap, e) == heap[errs[e].context.n].props

\* C10: no attempt to add, modify or delete a key on error.context changes the
\* observable context of any FabError: every step leaves it as it was.
C10_ContextNeverChanges ==
    [][\A e \in DOMAIN errs :
           errs[e].context.t = "obj" => ContextOf(objs', e) = ContextOf(objs, e)]_vars

\* a write of another value to an existing key of a context has been attempted
C10_Witness ==
    /\ pc = "done"
    /\ call.fn = "set"
    /\ call.key \in DOMAIN ContextOf(objs, call.start.n)
    /\ ContextOf(objs, call.start.n)[call.key] # call.value

\* what an observer reads through the context of FabError e: each top-level value,
\* and for a value that is an object the properties of that object
DeepContextOf(heap, e) ==
    LET top == heap[errs[e].context.n].props
    IN  [k \in DOMAIN top |->
            IF top[k].t = "obj" THEN [ref |-> top[k], props |-> heap[top[k].n].props]
            ELSE [ref |-> top[k], props |-> NoProps]]

\* C11 as stated: the context is deep-frozen, so no step changes what is observable
\* through error.context at any depth.
C11_DeepFrozen ==
    [][\A e \in DOMAIN errs :
           errs[e].context.t = "obj" => DeepContextOf(objs', e) = DeepContextOf(objs, e)]_vars

NestedSetDone == pc = "done" /\ call.fn = "nested_set"

\* C11: the context is frozen at its top level only: the context object itself is
\* frozen and keeps its keys and the values bound to them, while an object stored
\* as a context value is not frozen by the construction, so a write to it is
\* accepted and is observable through error.context.
C11_ShallowFrozen ==
    /\ \A e \in DOMAIN errs : errs[e].context.t = "obj" => objs[errs[e].context.n].frozen
    /\ NestedSetDone =>
           /\ ret = Return(call.value)
           /\ ~objs[call.context.n].frozen
           /\ Get(objs[call.context.n].props, call.key) = call.value
           /\ \E k \in DOMAIN ContextOf(objs, call.start.n) :
                  ContextOf(objs, call.start.n)[k] = call.context

\* a write of 9 to property n of the object stored in a context has been made, and
\* the context now shows n = 9 where the caller supplied n = 1
C11_Witness ==
    /\ NestedSetDone
    /\ call.key = "n"
    /\ call.value = Num(9)
    /\ DeepContextOf(objs, call.start.n)["i"].props["n"] = Num(9)

\* C12: immediately after construction the cause of a FabError is the cause
\* argument when that argument is an Error instance, and is unset for every other
\* argument (undefined, null, a plain object, a string, a number).
C12_CauseStoredOnlyIfError ==
    NewDone =>
        LET this == errs[ret.val.n]
        IN  /\ this.cause = Undef \/ (this.cause.t = "err" /\ this.cause.n \in DOMAIN errs)
            /\ call.cause.t = "err" => this.cause = call.cause
            /\ call.cause.t # "err" => this.cause = Undef

\* a FabError has been constructed with a plain object as cause argument
C12_Witness ==
    /\ NewDone
    /\ call.cause.t = "obj"
    /\ errs[ret.val.n].cause = Undef

JsonDone == pc = "done" /\ call.fn = "toJSON"

RECURSIVE CauseAt(_, _)
\* the value d cause-fields deep in a serialized form
CauseAt(json, d) == IF d = 0 THEN json ELSE CauseAt(json.cause, d - 1)

\* the nodes at depths 0..d of the chain of start exist and are all FabErrors
FabChainTo(start, d) ==
    \A k \in 0..d : NodeAt(start, k) # 0 /\ errs[NodeAt(start, k)].cls = "FabError"

\* the fields of a serialized FabError other than cause, read off node i
OwnFields(i) ==
    [name |-> Str("FabError"), code |-> errs[i].code, message |-> errs[i].message,
     context |-> errs[i].context, docs |-> errs[i].docs, stack |-> errs[i].stack,
     spec |-> [code |-> Field(objs, errs[i].spec, "code"),
               messageTemplate |-> Field(objs, errs[i].spec, "messageTemplate"),
               docs |-> Field(objs, errs[i].spec, "docs")]]

\* a serialized form without its cause field
OwnPart(json) == [f \in (DOMAIN json) \ {"cause"} |-> json[f]]

\* C13: toJSON of a FabError with no predecessor has no cause; along a chain of
\* FabErrors the cause found d levels deep is the serialized form of the node at
\* depth d, equal to that node's own toJSON output, at every depth.
C13_ToJSONRecursesThroughFabErrors ==
    (JsonDone /\ ret.kind = "return") =>
        /\ errs[call.start.n].cause = Undef => ret.json.cause = Undef
        /\ \A d \in 0..(Len(errs) - 1) :
               FabChainTo(call.start, d) =>
                   LET j == CauseAt(ret.json, d)
                       i == NodeAt(call.start, d)
                   IN  /\ OwnPart(j) = OwnFields(i)
                       /\ j = ToJSONFrom(i, Len(errs))
                       /\ errs[i].cause = Undef => j.cause = Undef

\* a FabError whose predecessor is a FabError without predecessor has been serialized
C13_Witness ==
    /\ JsonDone
    /\ ret.kind = "return"
    /\ FabChainTo(call.start, 1)
    /\ errs[NodeAt(call.start, 1)].cause = Undef
    /\ ret.json.cause.code = Str("L1")
    /\ ret.json.cause.cause = Undef

\* C14: when the predecessor is an Error instance that is no FabError, the cause
\* of the serialized form has exactly the fields name, message and stack of that
\* predecessor, and nothing of the predecessor's own cause.
C14_PlainErrorCauseIsNameMessageStack ==
    (JsonDone /\ ret.kind = "return" /\ NodeAt(call.start, 1) # 0
         /\ errs[NodeAt(call.start, 1)].cls # "FabError") =>
        LET c == errs[NodeAt(call.start, 1)]
        IN  /\ DOMAIN ret.json.cause = {"name", "message", "stack"}
            /\ ret.json.cause.name = Str(c.name)
            /\ ret.json.cause.message = c.message
            /\ ret.json.cause.stack = c.stack

\* the serialized FabError has a TypeError as predecessor, and that TypeError has
\* a FabError as its own cause
C14_Witness ==
    /\ JsonDone
    /\ ret.kind = "return"
    /\ NodeAt(call.start, 1) # 0
    /\ errs[NodeAt(call.start, 1)].cls = "TypeError"
    /\ NodeAt(call.start, 2) # 0
    /\ errs[NodeAt(call.start, 2)].cls = "FabError"
    /\ ret.json.cause.name = Str("TypeError")

\* C15: when cause has been assigned a value that is no Error, the cause of the
\* serialized form is a shallow copy of the own enumerable fields of a plain
\* object, and is { value: String(cause) } for every defined string, number or
\* boolean, whatever its value.
C15_NonErrorCauseSerialized ==
    (JsonDone /\ ret.kind = "return") =>
        LET cause == errs[call.start.n].cause
        IN  /\ cause.t = "obj" => ret.json.cause = objs[cause.n].props
            /\ cause.t \in {"str", "num", "bool"} =>
                   ret.json.cause = [value |-> Str(StringOf(cause))]

\* a serialized form with the context reference replaced by the content behind it
View(json) == [json EXCEPT !.context = objs[json.context.n].props]

\* a serialized form without its stack field
WithoutStack(json) == [f \in (DOMAIN json) \ {"stack"} |-> json[f]]

\* FabErrors i and j were built from the same blueprint with the same merged
\* context and neither has a predecessor
SameBlueprintAndContext(i, j) ==
    /\ errs[i].cls = "FabError" /\ errs[j].cls = "FabError"
    /\ errs[i].spec = errs[j].spec
    /\ objs[errs[i].context.n].props = objs[errs[j].context.n].props
    /\ errs[i].cause = Undef /\ errs[j].cause = Undef

\* what blueprint, merged context and captured trace of node i determine
Determined(i) ==
    LET B == objs[errs[i].spec.n].props
        C == objs[errs[i].context.n].props
    IN  [name |-> Str("FabError"), code |-> Get(B, "code"),
         message |-> Str(formatMessage(Get(B, "messageTemplate"), C, objs)),
         context |-> C, docs |-> Get(B, "docs"), stack |-> errs[i].stack,
         spec |-> [code |-> Get(B, "code"), messageTemplate |-> Get(B, "messageTemplate"),
                   docs |-> Get(B, "docs")],
         cause |-> Undef]

\* C16 as stated: the serialized form of a FabError without predecessor equals
\* the serialized form of every separately constructed instance of the same
\* blueprint and context.
C16_SameForEveryInstance ==
    (JsonDone /\ ret.kind = "return" /\ errs[call.start.n].cause = Undef) =>
        \A j \in DOMAIN errs :
            SameBlueprintAndContext(call.start.n, j) =>
                View(ret.json) = View(ToJSONFrom(j, Len(errs)))

\* C16: the serialized form of a FabError without predecessor is determined by
\* its blueprint, its merged context and the trace captured at its construction,
\* whatever calls came before; separately constructed instances of the same
\* blueprint and context agree in every field but stack.
C16_DeterminedUpToStack ==
    (JsonDone /\ ret.kind = "return" /\ errs[call.start.n].cause = Undef) =>
        /\ View(ret.json) = Determined(call.start.n)
        /\ \A j \in DOMAIN errs :
               SameBlueprintAndContext(call.start.n, j) =>
                   WithoutStack(View(ret.json)) = WithoutStack(View(ToJSONFrom(j, Len(errs))))

\* a FabError has been serialized while a second instance of the same blueprint
\* and context, constructed at another place, exists
C16_Witness ==
    /\ JsonDone
    /\ ret.kind = "return"
    /\ \E j \in DOMAIN errs :
           /\ j # call.start.n
           /\ SameBlueprintAndContext(call.start.n, j)
           /\ errs[j].stack # errs[call.start.n].stack

FormatDone == pc = "done" /\ call.fn = "format"

\* positions i..j of s hold a placeholder: a brace pair around one or more word characters
IsHole(s, i, j) ==
    /\ j > i + 1
    /\ CharAt(s, i) = "{"
    /\ CharAt(s, j) = "}"
    /\ \A k \in (i + 1)..(j - 1) : IsWordChar(CharAt(s, k))

\* the placeholders of s, as pairs of positions
Holes(s) == { h \in (1..Len(s)) \X (1..Len(s)) : IsHole(s, h[1], h[2]) }

\* the output of the call is the formatted text before placeholder h, then
\* `text`, then the formatted text after h
OutputAround(h, text) ==
    LET t == call.value.s
        ctx == objs[call.context.n].props
    IN  ret.val.s = formatMessage(Str(SubSeq(t, 1, h[1] - 1)), ctx, objs)
                        \o text
                        \o formatMessage(Str(SubSeq(t, h[2] + 1, Len(t))), ctx, objs)

\* the name and the context value of placeholder h of the call's template
HoleKey(h) == SubSeq(call.value.s, h[1] + 1, h[2] - 1)

HoleValue(h) == Get(objs[call.context.n].props, HoleKey(h))

\* C17: for every placeholder {x} of the template whose key is absent from the
\* context, or bound to null or undefined, the output has the literal text {x}
\* at that position, between the formatted text before it and the formatted
\* text after it, so the other placeholders are still substituted.
C17_MissingPlaceholderPreserved ==
    (FormatDone /\ call.value.t = "str") =>
        /\ ret.kind = "return"
        /\ \A h \in Holes(call.value.s) :
               HoleValue(h).t \in {"undef", "null"} =>
                   /\ OutputAround(h, "{" \o HoleKey(h) \o "}")
                   /\ Includes(ret.val.s, "{" \o HoleKey(h) \o "}")

\* "Mid {i} {q}" formatted with { i: 'disk', a: undefined }: {q} stays, {i} is substituted
C17_Witness ==
    /\ FormatDone
    /\ call.value = Str("Mid {i} {q}")
    /\ HoleValue(<<9, 11>>) = Undef
    /\ HoleValue(<<5, 7>>) = Str("disk")
    /\ ret.val = Str("Mid disk {q}")

\* C18: a placeholder whose context value is a string, number or boolean is
\* replaced by the value's direct stringification; one whose value is an object
\* with its own toString by the result of that toString; it is left verbatim
\* when the object has only the default toString, when its toString raises, and
\* for a function or a symbol; formatMessage never raises.
C18_SubstitutionByValueKind ==
    FormatDone =>
        /\ ret.kind = "return"
        /\ call.value.t = "str" =>
               \A h \in Holes(call.value.s) :
                   LET v == HoleValue(h)
                   IN  /\ v.t \in {"str", "num", "bool"} => OutputAround(h, StringOf(v))
                       /\ (v.t = "obj" /\ objs[v.n].ts = "custom") => OutputAround(h, objs[v.n].tsv)
                       /\ (v.t = "obj" /\ objs[v.n].ts \in {"default", "throws"}) =>
                              OutputAround(h, "{" \o HoleKey(h) \o "}")
                       /\ v.t \in {"fn", "sym"} => OutputAround(h, "{" \o HoleKey(h) \o "}")

\* "{x}-{y}-{z}" formatted with an object that has its own toString, one whose
\* toString throws and one with the default toString
C18_Witness ==
    /\ FormatDone
    /\ call.value = Str("{x}-{y}-{z}")
    /\ call.context = ObjRef(11)
    /\ ret.val = Str("v1.2-{y}-{z}")

\* C19: constructing a FabError returns the new instance and never raises; when
\* the blueprint's messageTemplate is no string the message is empty, and
\* formatMessage returns the empty string for every template that is no string.
C19_ConstructionNeverRaises ==
    /\ NewDone =>
           /\ ret.kind = "return"
           /\ ret.val = ErrRef(Len(errs))
           /\ errs[ret.val.n].cls = "FabError"
           /\ errs[ret.val.n].message.t = "str"
           /\ Field(objs, call.spec, "messageTemplate").t # "str" =>
                  errs[ret.val.n].message = Str("")
    /\ (FormatDone /\ call.value.t # "str") => ret = Return(Str(""))

\* a FabError has been constructed from a blueprint whose template is the number 5
C19_Witness ==
    /\ NewDone
    /\ Field(objs, call.spec, "messageTemplate") = Num(5)
    /\ errs[ret.val.n].message = Str("")
    /\ errs[ret.val.n].code = Str("L3")

\* the fields of the nodes and the content of every object, as a later reader finds them
NodeFields(eheap, oheap) ==
    [i \in DOMAIN eheap |->
        [code |-> eheap[i].code, context |-> eheap[i].context, spec |-> eheap[i].spec,
         docs |-> eheap[i].docs, message |-> eheap[i].message, cause |-> eheap[i].cause,
         contextContent |-> IF eheap[i].context.t = "obj" THEN oheap[eheap[i].context.n].props
                            ELSE NoProps,
         specContent |-> IF eheap[i].spec.t = "obj" THEN oheap[eheap[i].spec.n].props
                         ELSE NoProps]]

\* C20: a construction step leaves the new FabError with code = spec.code, spec
\* the very blueprint object passed in, docs = spec.docs and message =
\* formatMessage(spec.messageTemplate, merged context), and changes no older
\* node; no step of toJSON, hasErrorInChain or checkErrorChain changes the code,
\* context, spec, docs, message or cause of any node.
C20_FieldsSetOnceAndKept ==
    [][/\ call'.fn = "new" =>
              LET n == Len(errs')
                  this == errs'[n]
                  B == objs[call'.spec.n].props
              IN  /\ this.code = Get(B, "code")
                  /\ this.spec = call'.spec
                  /\ objs'[this.spec.n] = objs[call'.spec.n]
                  /\ this.docs = Get(B, "docs")
                  /\ this.message = Str(formatMessage(Get(B, "messageTemplate"),
                                                      objs'[this.context.n].props, objs'))
                  /\ \A i \in DOMAIN errs : NodeFields(errs', objs')[i] = NodeFields(errs, objs)[i]
       /\ call'.fn \in {"toJSON", "has", "check"} =>
              NodeFields(errs', objs') = NodeFields(errs, objs)]_vars

\* a chain of two FabErrors has been serialized: both nodes carry the code of
\* their blueprint and share the one blueprint object
C20_Witness ==
    /\ JsonDone
    /\ ret.kind = "return"
    /\ FabChainTo(call.start, 1)
    /\ \A d \in 0..1 :
           LET i == NodeAt(call.start, d)
           IN  errs[i].code = Field(objs, errs[i].spec, "code") /\ errs[i].spec = ObjRef(2)

\* the logger the dependency slot holds, undefined when it is unset
SlotLogger == Get(objs[Dependencies].props, "logger")

\* C21: the logger slot is unset initially, and setFabErrorsDependencies(p) sets
\* exactly the fields present in p to p's values and leaves every other field of
\* the slot as it was; no other operation changes the slot.
C21_SetDependenciesReplacesGivenFields ==
    /\ SlotLogger = Undef
    /\ [][LET old == objs[Dependencies].props
              new == objs'[Dependencies].props
          IN  IF pc = "idle" /\ pc' = "done" /\ call'.fn = "setDeps"
              THEN LET p == objs[call'.value.n].props
                   IN  /\ DOMAIN new = DOMAIN old \cup DOMAIN p
                       /\ \A k \in DOMAIN p : new[k] = p[k]
                       /\ \A k \in DOMAIN old \ DOMAIN p : new[k] = old[k]
              ELSE new = old]_vars

\* a call that supplies no logger field is made while a logger is installed
C21_Witness ==
    /\ pc = "done" /\ call.fn = "setDeps"
    /\ "logger" \notin DOMAIN objs[call.value.n].props
    /\ SlotLogger = ObjRef(20)

C23_FirstFailureInFixedOrder ==
    (CheckDone /\ call.isArray /\ ret.kind = "throw") =>
        LET failing == { d \in 0..(Len(call.levels) - 1) :
                           \/ NodeAt(call.start, d) = 0
                           \/ ~MeetsAll(NodeAt(call.start, d), call.levels[d + 1]) }
        IN  IF failing = {}
            THEN ret.site = 198
            ELSE LET i == CHOOSE d \in failing : \A x \in failing : d <= x
                     n == NodeAt(call.start, i)
                 IN  /\ LevelsMet(call.start, call.levels, i)
                     /\ Includes(ret.msg, "at level " \o ToString(i) \o ":")
                     /\ ret.site = IF n = 0 THEN 146
                                   ELSE IF ~MeetsCode(n, call.levels[i + 1]) THEN 154
                                   ELSE IF ~MeetsType(n, call.levels[i + 1]) THEN 166
                                   ELSE IF errs[n].message.t # "str" THEN 175
                                   ELSE 182

\* the node at level 1 fails the code, the type and the message check of its
\* level, after level 0 matched
C23_Witness ==
    /\ CheckDone /\ call.isArray /\ ret.kind = "throw"
    /\ Len(call.levels) = 2
    /\ LevelsMet(call.start, call.levels, 1)
    /\ NodeAt(call.start, 1) # 0
    /\ ~MeetsCode(NodeAt(call.start, 1), call.levels[2])
    /\ ~MeetsType(NodeAt(call.start, 1), call.levels[2])
    /\ ~MeetsMessage(NodeAt(call.start, 1), call.levels[2])

\* C24: on a cyclic chain hasErrorInChain walks without bound: the loop never
\* runs off the chain, so when no node of the cycle meets the criteria the call
\* never returns, and when it returns it returns true and some node reachable
\* from start meets the criteria.
C24_HasNeverReturnsOnUnmatchedCycle ==
    (call.fn = "has" /\ NodeAt(call.start, Len(errs)) # 0) =>
        /\ cur.t = "err"
        /\ (\A i \in ChainSet(call.start) : ~MeetsAll(i, call.criteria)) => pc = "has_loop"
        /\ pc = "done" =>
               /\ ret = Return(Bool(TRUE))
               /\ \E i \in ChainSet(call.start) : MeetsAll(i, call.criteria)

\* a search on a cycle that no node of it satisfies has gone round the cycle: it
\* has examined more nodes than the heap holds, the first of them twice, and is
\* still in its loop
C24_Witness ==
    /\ call.fn = "has" /\ pc = "has_loop"
    /\ NodeAt(call.start, Len(errs)) # 0
    /\ \A i \in ChainSet(call.start) : ~MeetsAll(i, call.criteria)
    /\ Len(visited) > Len(errs)
    /\ \E j \in 2..Len(visited) : visited[j] = visited[1]

\* C25 as stated: on a cyclic chain whose successive nodes keep matching the
\* expected levels, checkErrorChain never terminates.
C25_CheckNeverReturnsOnMatchingCycle ==
    ( /\ call.fn = "check" /\ call.isArray
      /\ NodeAt(call.start, Len(errs)) # 0
      /\ LevelsMet(call.start, call.levels, Len(call.levels)) )
    => pc # "done"

\* C25, amended: on a cyclic chain checkErrorChain is bounded by the number of
\* expected levels: every step of its loop ends the call or advances the level
\* index, which never exceeds the number of levels; it reads at most one node
\* more than there are levels; it never returns true, and when the successive
\* nodes match every level it raises the excess-length error.
C25_CheckBoundedByLevelsOnCycle ==
    [][LET onCycle == (call.fn = "check" /\ call.isArray /\ NodeAt(call.start, Len(errs)) # 0)'
       IN  /\ onCycle =>
                 ( /\ lvl <= Len(call.levels)
                   /\ Len(visited) <= Len(call.levels) + 1
                   /\ pc = "done" => ret.kind = "throw"
                   /\ (pc = "done" /\ LevelsMet(call.start, call.levels, Len(call.levels)))
                          => ret.site = 198 )'
           /\ (onCycle /\ pc = "check_loop") => (pc' = "done" \/ lvl' = lvl + 1)]_vars

\* three levels were matched going round a cycle of fewer nodes, and the excess
\* error ended the call
C25_Witness ==
    /\ CheckDone /\ call.isArray
    /\ NodeAt(call.start, Len(errs)) # 0
    /\ Len(call.levels) = 3
    /\ LevelsMet(call.start, call.levels, 3)
    /\ NodeAt(call.start, 2) = NodeAt(call.start, 0)
    /\ ret.kind = "throw" /\ ret.site = 198

\* C26 as stated: on an acyclic chain of n nodes both inspectors examine the
\* nodes in chain order, each at most once; hasErrorInChain examines at most n
\* nodes and none after a matching one; checkErrorChain examines at most
\* min(n, number of expected levels) nodes.
C26_ExaminesAtMostMinOfNodesAndLevels ==
    (call.fn \in {"has", "check"} /\ call.isArray /\ NodeAt(call.start, Len(errs)) = 0) =>
        LET n == Cardinality(ChainSet(call.start))
            m == Len(call.levels)
        IN  /\ \A j \in 1..Len(visited) : visited[j] = NodeAt(call.start, j - 1)
            /\ call.fn = "has" =>
                   /\ Len(visited) <= n
                   /\ \A j \in 1..(Len(visited) - 1) : ~MeetsAll(visited[j], call.criteria)
            /\ call.fn = "check" => Len(visited) <= (IF n < m THEN n ELSE m)

\* C26, amended: on an acyclic chain of n nodes both inspectors terminate, every
\* step of their loops ending the call or examining the next node of the chain,
\* in chain order and each node at most once; hasErrorInChain examines at most n
\* nodes and none after a matching one; checkErrorChain checks at most
\* min(n, m) nodes against its m expected levels and reads at most min(n, m + 1)
\* nodes, the last of m + 1 only to report it in the excess-length error.
C26_TerminatesWithinChainAndLevels ==
    [][LET acyclic == (call.fn \in {"has", "check"} /\ call.isArray
                          /\ NodeAt(call.start, Len(errs)) = 0)'
       IN  /\ acyclic =>
                 ( LET n == Cardinality(ChainSet(call.start))
                       m == Len(call.levels)
                   IN  /\ \A j \in 1..Len(visited) : visited[j] = NodeAt(call.start, j - 1)
                       /\ call.fn = "has" =>
                              /\ Len(visited) <= n
                              /\ \A j \in 1..(Len(visited) - 1) :
                                     ~MeetsAll(visited[j], call.criteria)
                       /\ call.fn = "check" =>
                              /\ lvl <= (IF n < m THEN n ELSE m)
                              /\ Len(visited) <= (IF n < m + 1 THEN n ELSE m + 1)
                              /\ Len(visited) = m + 1 => (pc = "done" /\ ret.site = 198) )'
           /\ (acyclic /\ pc \in {"has_loop", "check_loop"})
                  => (pc' = "done" \/ Len(visited') = Len(visited) + 1)]_vars

\* all of one expected level matched on a chain of two nodes, and the call read
\* the second node to report it
C26_Witness ==
    /\ CheckDone /\ call.isArray
    /\ NodeAt(call.start, Len(errs)) = 0
    /\ Cardinality(ChainSet(call.start)) = 2
    /\ Len(call.levels) = 1
    /\ visited = << NodeAt(call.start, 0), NodeAt(call.start, 1) >>
    /\ ret.kind = "throw" /\ ret.site = 198

\* C27: the two inspectors agree: whenever checkErrorChain(start, expectedLevels)
\* returns true, hasErrorInChain(start, expectedLevels[i]) returns true for every
\* index i of expectedLevels.
C27_CheckTrueImpliesHasTrueForEachLevel ==
    /\ (CheckDone /\ ret = Return(Bool(TRUE))) =>
           \A i \in 1..Len(call.levels) :
               hasErrorInChain(call.start, call.levels[i], Len(errs)) = "true"
    /\ HasDone => ret = Return(Bool(hasErrorInChain(call.start, call.criteria, Len(errs)) = "true"))

\* a chain of two nodes was accepted against two levels, the second of which the
\* start node does not meet
C27_Witness ==
    /\ CheckDone /\ ret = Return(Bool(TRUE))
    /\ Len(call.levels) = 2
    /\ ~MeetsAll(call.start.n, call.levels[2])

C29_ConstructionLeavesInputsUntouched ==
    [][/\ (pc = "idle" /\ NewDone') =>
              /\ \A o \in DOMAIN objs : objs'[o] = objs[o]
              /\ errs'[Len(errs')].context.t = "obj"
              /\ errs'[Len(errs')].context.n \notin DOMAIN objs
       /\ (pc = "idle" /\ call'.fn = "setInput") =>
              /\ ret' = Return(call'.value)
              /\ Field(objs', call'.context, call'.key) = call'.value
              /\ errs' = errs
              /\ \A e \in DOMAIN errs :
                     objs'[errs[e].context.n] = objs[errs[e].context.n]]_vars

\* after a construction, the key b of defaultContext was changed and the key r
\* was added to the caller's context; the error still shows the old b, no r, and
\* the message formatted from them
C29_Witness ==
    /\ pc = "done" /\ call.fn = "setInput"
    /\ Len(errs) >= 1
    /\ Field(objs, ObjRef(1), "b") = Num(9)
    /\ Field(objs, ObjRef(5), "r") = Num(9)
    /\ Field(objs, errs[1].context, "b") = Num(2)
    /\ "r" \notin DOMAIN objs[errs[1].context.n].props
    /\ errs[1].message = Str("Top {r} 2")

\* C30: formatMessage substitutes in a single pass: the output is the template
\* with each of its own placeholders replaced, independently and against the one
\* context, and the text between them kept; inserted text is not scanned again,
\* so a context value containing {y} appears literally even when y is a key of
\* the context.
C30_SinglePassSubstitution ==
    (FormatDone /\ call.value.t = "str") =>
        LET t == call.value.s
            ctx == objs[call.context.n].props
            RECURSIVE Filled(_)
            Filled(i) ==
                IF i > Len(t) THEN ""
                ELSE IF \E j \in i..Len(t) : IsHole(t, i, j)
                     THEN LET j == CHOOSE x \in i..Len(t) : IsHole(t, i, x)
                          IN  Replacer(SubSeq(t, i, j), SubSeq(t, i + 1, j - 1), ctx, objs)
                                  \o Filled(j + 1)
                     ELSE CharAt(t, i) \o Filled(i + 1)
        IN  /\ ret.val.s = Filled(1)
            /\ \A h \in Holes(t) :
                   (HoleValue(h).t = "str" /\ Holes(HoleValue(h).s) # {})
                       => Includes(ret.val.s, HoleValue(h).s)

\* "Top {r} {b}" formatted with { r: '{b}', b: true }: the inserted {b} stays,
\* the template's own {b} is substituted
C30_Witness ==
    /\ FormatDone
    /\ call.value = Str("Top {r} {b}")
    /\ HoleValue(<<5, 7>>) = Str("{b}")
    /\ HoleValue(<<9, 11>>) = Bool(TRUE)
    /\ ret.val = Str("Top {b} true")

====
